---- MODULE Spec2Model ----
(***************************************************************************)
(* Model of src/openai/mod.ts: typiaJsonToOpenAIJsonSchema picks the first *)
(* own key of jsonSchema.components.schemas and repackages the schema      *)
(* stored under it; typiaJsonToOpenAIResponse wraps that record.           *)
(*                                                                         *)
(* JavaScript values are tagged records.  A string is the tuple of its     *)
(* characters, so that "is this key an array index" is computed from the   *)
(* characters as the engine computes it.  An object is the sequence of its *)
(* own properties in creation order.                                       *)
(***************************************************************************)
EXTENDS Integers, Sequences, FiniteSets, TLC

VARIABLES params, given, lastCall, outcome, log, repeated

vars == <<params, given, lastCall, outcome, log, repeated>>

\* ---------------------------------------------------------------- bounds
MaxEntries == 2

\* ------------------------------------------------------ JavaScript values
Undefined == [t |-> "undefined"]
Null == [t |-> "null"]
Bool(b) == [t |-> "boolean", v |-> b]
Str(chars) == [t |-> "string", v |-> chars]
Obj(props) == [t |-> "object", props |-> props]
Prop(key, value) == [key |-> key, value |-> value]

IsObject(v) == v.t = "object"

\* x == null : true of null and of undefined, of nothing else
LooseEqNull_strictOnly(v) == v = Null
LooseEqNull(v) == v = Null \/ v = Undefined

\* reading a field of a record-shaped object: a missing field reads undefined
Field(rec, f) == IF f \in DOMAIN rec THEN rec[f] ELSE Undefined

\* ------------------------------------------------- own property key order
DigitVal == [c \in {"0", "1", "2", "3", "4", "5", "6", "7", "8", "9"} |->
               CASE c = "0" -> 0 [] c = "1" -> 1 [] c = "2" -> 2 [] c = "3" -> 3
                 [] c = "4" -> 4 [] c = "5" -> 5 [] c = "6" -> 6 [] c = "7" -> 7
                 [] c = "8" -> 8 [] c = "9" -> 9]

\* the decimal digits of 2^32 - 2, the largest array index
MaxArrayIndexDigits == <<4, 2, 9, 4, 9, 6, 7, 2, 9, 4>>

Digits(chars) == [i \in 1..Len(chars) |-> DigitVal[chars[i]]]

\* a <= b for two digit sequences of the same length
RECURSIVE DigitsLeq(_, _)
DigitsLeq(a, b) ==
  IF a = <<>> THEN TRUE
  ELSE IF Head(a) # Head(b) THEN Head(a) < Head(b)
  ELSE DigitsLeq(Tail(a), Tail(b))

\* a key is an array index when it is the canonical decimal form of an
\* integer in 0 .. 2^32 - 2
IsArrayIndex(chars) ==
  /\ Len(chars) >= 1
  /\ Len(chars) <= Len(MaxArrayIndexDigits)
  /\ \A i \in 1..Len(chars) : chars[i] \in DOMAIN DigitVal
  /\ (Len(chars) > 1 => chars[1] # "0")
  /\ (Len(chars) = Len(MaxArrayIndexDigits) => DigitsLeq(Digits(chars), MaxArrayIndexDigits))

\* numeric a <= b for two array-index keys (canonical, so the shorter is smaller)
IndexLeq(a, b) ==
  \/ Len(a) < Len(b)
  \/ Len(a) = Len(b) /\ DigitsLeq(Digits(a), Digits(b))

RECURSIVE SortIndexKeys(_)
SortIndexKeys(S) ==
  IF S = {} THEN <<>>
  ELSE LET m == CHOOSE k \in S : \A o \in S : IndexLeq(k, o)
       IN <<m>> \o SortIndexKeys(S \ {m})

RECURSIVE FilterKeys(_, _)
FilterKeys(props, wantIndex) ==
  IF props = <<>> THEN <<>>
  ELSE LET rest == FilterKeys(Tail(props), wantIndex)
       IN IF IsArrayIndex(Head(props).key) = wantIndex
          THEN <<Head(props).key>> \o rest
          ELSE rest

\* the other string keys placed before the array indices
OwnPropertyKeys_indicesLast(obj) ==
  LET idx == FilterKeys(obj.props, TRUE)
  IN FilterKeys(obj.props, FALSE) \o SortIndexKeys({idx[i] : i \in 1..Len(idx)})
\* OrdinaryOwnPropertyKeys: array-index keys ascending, then the other
\* string keys in creation order
OwnPropertyKeys(obj) ==
  LET idx == FilterKeys(obj.props, TRUE)
  IN SortIndexKeys({idx[i] : i \in 1..Len(idx)}) \o FilterKeys(obj.props, FALSE)

\* Object.keys(obj): the own enumerable string keys as an array of strings
ObjectKeys(obj) ==
  LET ks == OwnPropertyKeys(obj) IN [i \in 1..Len(ks) |-> Str(ks[i])]

\* Array.prototype.at(index): negative indices count from the end, an index
\* out of range reads undefined
At(arr, index) ==
  LET k == IF index >= 0 THEN index ELSE Len(arr) + index
  IN IF k < 0 \/ k >= Len(arr) THEN Undefined ELSE arr[k + 1]

K_undefined == <<"u", "n", "d", "e", "f", "i", "n", "e", "d">>
K_null == <<"n", "u", "l", "l">>
ToPropertyKey(v) ==
  IF v.t = "string" THEN v.v ELSE IF v = Null THEN K_null ELSE K_undefined

\* obj[key]: the own property of that name, undefined when there is none
Get(obj, key) ==
  LET k == ToPropertyKey(key)
      hits == {i \in 1..Len(obj.props) : obj.props[i].key = k}
  IN IF hits = {} THEN Undefined ELSE obj.props[CHOOSE i \in hits : TRUE].value

\* ------------------------------------------------------------- outcomes
NoOutcome == [kind |-> "none"]
Return(v) == [kind |-> "return", value |-> v]
Throw(e) == [kind |-> "throw", error |-> e]

MissingSchemaMap == "json_schema.components.schemas is null"
NoSchemaFound == "name is null"
TypeError == "TypeError"

K_description == <<"d", "e", "s", "c", "r", "i", "p", "t", "i", "o", "n">>
K_type == <<"t", "y", "p", "e">>
K_properties == <<"p", "r", "o", "p", "e", "r", "t", "i", "e", "s">>

\* --------------------------------------------------------- src/openai/mod.ts
\* the record returned at the end of typiaJsonToOpenAIJsonSchema
ProjectedSchema_strictDefault(name, targetSchema, strict) ==
  [name |-> name,
   schema |-> targetSchema,
   description |-> Get(targetSchema, Str(K_description)),
   strict |-> IF LooseEqNull(strict) THEN Bool(FALSE) ELSE strict]
ProjectedSchema_descriptionDefault(name, targetSchema, strict) ==
  [name |-> name,
   schema |-> targetSchema,
   description |-> IF Get(targetSchema, Str(K_description)) = Undefined
                   THEN Str(<<>>)
                   ELSE Get(targetSchema, Str(K_description)),
   strict |-> strict]
ProjectedSchema_descriptionMoved(name, targetSchema, strict) ==
  [name |-> name,
   schema |-> Obj(SelectSeq(targetSchema.props, LAMBDA p : p.key # K_description)),
   description |-> Get(targetSchema, Str(K_description)),
   strict |-> strict]
ProjectedSchema(name, targetSchema, strict) ==
  [name |-> name,
   schema |-> targetSchema,
   description |-> Get(targetSchema, Str(K_description)),
   strict |-> strict]

typiaJsonToOpenAIJsonSchema_sameError(p) ==
  LET jsonSchema == Field(p, "jsonSchema")
      strict == Field(p, "strict")
      schemas == Field(jsonSchema.components, "schemas")
  IN IF LooseEqNull(schemas) THEN Throw(MissingSchemaMap)
     ELSE LET name == At(ObjectKeys(schemas), 0)
          IN IF LooseEqNull(name) THEN Throw(MissingSchemaMap)
             ELSE Return(ProjectedSchema(name, Get(schemas, name), strict))
typiaJsonToOpenAIJsonSchema_singleOnly(p) ==
  LET jsonSchema == Field(p, "jsonSchema")
      strict == Field(p, "strict")
      schemas == Field(jsonSchema.components, "schemas")
  IN IF LooseEqNull(schemas) THEN Throw(MissingSchemaMap)
     ELSE LET name == At(ObjectKeys(schemas), 0)
          IN IF LooseEqNull(name) \/ Len(ObjectKeys(schemas)) # 1 THEN Throw(NoSchemaFound)
             ELSE Return(ProjectedSchema(name, Get(schemas, name), strict))
typiaJsonToOpenAIJsonSchema(p) ==
  LET jsonSchema == Field(p, "jsonSchema")
      strict == Field(p, "strict")
      schemas == Field(jsonSchema.components, "schemas")
  IN IF LooseEqNull(schemas) THEN Throw(MissingSchemaMap)
     ELSE IF ~IsObject(schemas) THEN Throw(TypeError)   \* Object.keys(undefined)
     ELSE LET name == At(ObjectKeys(schemas), 0)
          IN IF LooseEqNull(name) THEN Throw(NoSchemaFound)
             ELSE LET targetSchema == Get(schemas, name)
                  IN IF ~IsObject(targetSchema)
                     THEN Throw(TypeError)              \* undefined.description
                     ELSE Return(ProjectedSchema(name, targetSchema, strict))

JSON_SCHEMA == "json_schema"

typiaJsonToOpenAIResponse_swallow(p) ==
  LET r == typiaJsonToOpenAIJsonSchema(p)
  IN IF r.kind = "throw"
     THEN Return([type |-> JSON_SCHEMA, json_schema |-> Undefined])
     ELSE Return([type |-> JSON_SCHEMA, json_schema |-> r.value])
typiaJsonToOpenAIResponse_noStrict(p) ==
  LET r == typiaJsonToOpenAIJsonSchema([jsonSchema |-> p.jsonSchema])
  IN IF r.kind = "throw" THEN r
     ELSE Return([type |-> JSON_SCHEMA, json_schema |-> r.value])
typiaJsonToOpenAIResponse(p) ==
  LET r == typiaJsonToOpenAIJsonSchema(p)
  IN IF r.kind = "throw" THEN r
     ELSE Return([type |-> JSON_SCHEMA, json_schema |-> r.value])

\* what a call leaves in the caller's params object: both functions only
\* read jsonSchema and schemas, so the object is as it was
InputAfterCall_consume(p) ==
  LET schemas == Field(p.jsonSchema.components, "schemas")
  IN IF ~IsObject(schemas) \/ schemas.props = <<>> THEN p
     ELSE LET name == At(ObjectKeys(schemas), 0)
              rest == Obj(SelectSeq(schemas.props, LAMBDA q : q.key # name.v))
          IN [p EXCEPT !.jsonSchema = [components |-> [schemas |-> rest]]]
InputAfterCall(p) == p

\* ------------------------------------------------------------ the inputs
\* "10" and "2" are array indices (and "10" < "2" as strings), "02" is not
\* canonical and so an ordinary string key, as is the empty string
Keys == {<<"B">>, <<"A">>, <<"1", "0">>, <<"2">>, <<"0", "2">>, <<>>}

BodyDescribed ==
  Obj(<<Prop(K_type, Str(<<"o", "b", "j">>)),
        Prop(K_description, Str(<<"a", "n", " ", "o", "u", "t">>))>>)
BodyPlain == Obj(<<Prop(K_type, Str(<<"o", "b", "j">>))>>)
BodyNested ==
  Obj(<<Prop(K_properties,
             Obj(<<Prop(K_description, Str(<<"i", "n", "n", "e", "r">>))>>))>>)
Bodies == {BodyDescribed, BodyPlain, BodyNested}

Entries == {Prop(k, b) : k \in Keys, b \in Bodies}

\* every way of creating n properties with distinct keys, in creation order
PropLists(n) ==
  {s \in [1..n -> Entries] : \A i, j \in 1..n : i # j => s[i].key # s[j].key}

SchemaMaps == {Obj(s) : s \in UNION {PropLists(n) : n \in 0..MaxEntries}}

\* components with a schemas object, with schemas: null, and with no schemas
\* field at all (only some other field), which reads undefined
Components == {[components |-> [schemas |-> m]] : m \in SchemaMaps \cup {Null}}
                \cup {[components |-> [other |-> Null]]}

StrictValues == {Bool(TRUE), Bool(FALSE), Null}

WithStrict(js, s) == [jsonSchema |-> js, strict |-> s]
WithoutStrict(js) == [jsonSchema |-> js]

Inputs == {WithStrict(js, s) : js \in Components, s \in StrictValues}
            \cup {WithoutStrict(js) : js \in Components}

\* --------------------------------------------------------- state machine
Init ==
  /\ params \in Inputs
  /\ given = params
  /\ lastCall = "none"
  /\ outcome = NoOutcome
  /\ log = {}
  /\ repeated = FALSE

CallSchema ==
  /\ outcome' = typiaJsonToOpenAIJsonSchema(params)
  /\ params' = InputAfterCall(params)
  /\ lastCall' = "schema"
  /\ log' = log \cup {[input |-> given, outcome |-> outcome']}
  /\ repeated' = (\E e \in log : e.input = given)
  /\ UNCHANGED given

CallResponse ==
  /\ outcome' = typiaJsonToOpenAIResponse(params)
  /\ params' = InputAfterCall(params)
  /\ lastCall' = "response"
  /\ UNCHANGED <<given, log, repeated>>

\* the caller passes the same document again with another strict flag; the
\* result of the earlier call is dropped
SetStrict ==
  \E q \in {WithStrict(params.jsonSchema, s) : s \in StrictValues}
             \cup {WithoutStrict(params.jsonSchema)} :
    /\ q # params
    /\ params' = q
    /\ given' = q
    /\ lastCall' = "none"
    /\ outcome' = NoOutcome
    /\ repeated' = FALSE
    /\ UNCHANGED log

Next == CallSchema \/ CallResponse \/ SetStrict

Spec == Init /\ [][Next]_vars

\* ------------------------------------------------- vocabulary of the claims
\* the schema mapping of the input the last call was made on
Mapping == Field(params.jsonSchema.components, "schemas")
MapAbsent == Mapping = Null \/ Mapping = Undefined
MapEmpty == ~MapAbsent /\ Mapping.props = <<>>
MapEntries == IF MapAbsent THEN 0 ELSE Len(Mapping.props)

CallerStrict == IF "strict" \in DOMAIN params THEN params.strict ELSE Undefined

HasTopLevel(body, key) == \E j \in 1..Len(body.props) : body.props[j].key = key
TopLevel(body, key) ==
  IF HasTopLevel(body, key)
  THEN body.props[CHOOSE j \in 1..Len(body.props) : body.props[j].key = key].value
  ELSE Undefined

InsertedKey(i) == Mapping.props[i].key
InsertedBody(i) == Mapping.props[i].value
IndexPositions == {i \in 1..MapEntries : IsArrayIndex(InsertedKey(i))}
\* position of the entry the key order puts first
FirstInKeyOrder ==
  IF IndexPositions = {} THEN 1
  ELSE CHOOSE i \in IndexPositions :
         \A j \in IndexPositions : IndexLeq(InsertedKey(i), InsertedKey(j))

SchemaReturned == lastCall = "schema" /\ outcome.kind = "return"
ResponseReturned == lastCall = "response" /\ outcome.kind = "return"

\* ------------------------------------------------------------------ claims
\* C1: on a present mapping with at least one entry, project returns a record
\* whose name is a key of the mapping, whose schema is the body stored under
\* that key with nothing added, removed or rewritten, whose description is
\* that body's top-level description, and whose strict is the caller's flag.
C1_ProjectsSelectedEntry ==
  (lastCall = "schema" /\ MapEntries >= 1) =>
    /\ outcome.kind = "return"
    /\ DOMAIN outcome.value = {"name", "schema", "description", "strict"}
    /\ \E i \in 1..MapEntries :
         /\ outcome.value.name = Str(InsertedKey(i))
         /\ outcome.value.schema = InsertedBody(i)
    /\ outcome.value.description = TopLevel(outcome.value.schema, K_description)
    /\ outcome.value.strict = CallerStrict
C1_Witness ==
  /\ SchemaReturned
  /\ MapEntries = 1
  /\ outcome.value.schema = BodyDescribed
  /\ outcome.value.description = Str(<<"a", "n", " ", "o", "u", "t">>)
  /\ outcome.value.strict = Bool(TRUE)

\* C2: on an absent mapping (null or undefined), whatever strict is, project
\* throws MissingSchemaMap and returns nothing.
C2_AbsentMapThrowsMissing ==
  (lastCall = "schema" /\ MapAbsent) => outcome = [kind |-> "throw", error |-> MissingSchemaMap]
C2_Witness ==
  /\ lastCall = "schema"
  /\ "schemas" \notin DOMAIN params.jsonSchema.components
  /\ outcome.kind = "throw"

\* C3: on a present mapping with zero entries, whatever strict is, project
\* throws NoSchemaFound, a failure other than MissingSchemaMap, and returns
\* nothing.
C3_EmptyMapThrowsNoSchema ==
  (lastCall = "schema" /\ MapEmpty) =>
    /\ outcome = [kind |-> "throw", error |-> NoSchemaFound]
    /\ outcome.error # MissingSchemaMap
C3_Witness ==
  /\ lastCall = "schema"
  /\ MapEmpty
  /\ outcome.kind = "throw"
  /\ CallerStrict = Bool(FALSE)

\* C4 as stated: with two or more entries project selects the entry inserted
\* first, for every choice of key strings.
C4_FirstInsertedWins ==
  (lastCall = "schema" /\ MapEntries >= 2) =>
    /\ outcome.kind = "return"
    /\ outcome.value.name = Str(InsertedKey(1))
    /\ outcome.value.schema = InsertedBody(1)
\* C4 amended: with two or more entries project selects the first key of the
\* mapping's own-key order: the numerically smallest array-index key when the
\* mapping has one, otherwise the entry inserted first (the lexical order of
\* the keys plays no role); the extra entries raise no error.
C4_FirstInKeyOrderWins ==
  (lastCall = "schema" /\ MapEntries >= 2) =>
    /\ outcome.kind = "return"
    /\ outcome.value.name = Str(InsertedKey(FirstInKeyOrder))
    /\ outcome.value.schema = InsertedBody(FirstInKeyOrder)
C4_Witness ==
  /\ SchemaReturned
  /\ MapEntries = 2
  /\ InsertedKey(1) = <<"B">>
  /\ InsertedKey(2) = <<"A">>
  /\ outcome.value.name = Str(<<"B">>)

\* C5 as stated: when project succeeds, projectAsEnvelope returns a record
\* with exactly the two fields kind = "json_schema" and json_schema = the
\* record project returns.
C5_EnvelopeKind ==
  (lastCall = "response" /\ typiaJsonToOpenAIJsonSchema(params).kind = "return") =>
    /\ outcome.kind = "return"
    /\ DOMAIN outcome.value = {"kind", "json_schema"}
    /\ outcome.value.kind = "json_schema"
    /\ outcome.value.json_schema = typiaJsonToOpenAIJsonSchema(params).value
\* C5 amended: when project succeeds, projectAsEnvelope returns a record with
\* exactly the two fields type = "json_schema" and json_schema = the record
\* project returns for the same input.
C5_EnvelopeType ==
  (lastCall = "response" /\ typiaJsonToOpenAIJsonSchema(params).kind = "return") =>
    /\ outcome.kind = "return"
    /\ DOMAIN outcome.value = {"type", "json_schema"}
    /\ outcome.value.type = "json_schema"
    /\ outcome.value.json_schema = typiaJsonToOpenAIJsonSchema(params).value
C5_Witness ==
  /\ ResponseReturned
  /\ MapEntries = 1
  /\ outcome.value.json_schema.name = Str(<<"B">>)
  /\ outcome.value.json_schema.strict = Bool(TRUE)

\* C6: projectAsEnvelope throws exactly when project throws on that input,
\* and then the same failure: MissingSchemaMap on an absent mapping,
\* NoSchemaFound on an empty one; it never returns an envelope then.
C6_EnvelopeForwardsFailure ==
  lastCall = "response" =>
    /\ (outcome.kind = "throw") <=> (typiaJsonToOpenAIJsonSchema(params).kind = "throw")
    /\ outcome.kind = "throw" => outcome = typiaJsonToOpenAIJsonSchema(params)
    /\ MapAbsent => outcome = [kind |-> "throw", error |-> MissingSchemaMap]
    /\ MapEmpty => outcome = [kind |-> "throw", error |-> NoSchemaFound]
C6_Witness ==
  /\ lastCall = "response"
  /\ Mapping = Null
  /\ outcome.kind = "throw"

\* C7: strict is forwarded verbatim by both functions: true, false, null and
\* absent (read as undefined) each come out as the value that went in.
C7_StrictForwarded ==
  /\ SchemaReturned => outcome.value.strict = CallerStrict
  /\ ResponseReturned => outcome.value.json_schema.strict = CallerStrict
C7_Witness ==
  /\ ResponseReturned
  /\ "strict" \notin DOMAIN params
  /\ outcome.value.json_schema.strict = Undefined
  /\ \E e \in log : e.outcome.kind = "return" /\ e.outcome.value.strict = Null

\* C8: when the selected body has no top-level description, the result's
\* description is undefined: not "", not null, not another entry's
\* description and not a nested one.
C8_NoDescriptionIsUndefined ==
  (SchemaReturned /\ ~HasTopLevel(outcome.value.schema, K_description)) =>
    outcome.value.description = Undefined
C8_Witness ==
  /\ SchemaReturned
  /\ MapEntries = 2
  /\ outcome.value.schema = BodyNested
  /\ InsertedBody(1) = BodyNested
  /\ InsertedBody(2) = BodyDescribed
  /\ outcome.value.description = Undefined

\* C9: every call either returns or throws MissingSchemaMap or NoSchemaFound,
\* nothing else; on a present mapping with at least one entry it returns,
\* whatever the first key and body are.
C9_TotalButTwoFailures ==
  lastCall # "none" =>
    /\ outcome.kind \in {"return", "throw"}
    /\ outcome.kind = "throw" => outcome.error \in {MissingSchemaMap, NoSchemaFound}
    /\ MapEntries >= 1 => outcome.kind = "return"
C9_Witness ==
  /\ ResponseReturned
  /\ MapEntries = 2
  /\ InsertedKey(1) = <<>>
  /\ outcome.value.json_schema.name = Str(<<>>)

====
